---- MODULE Spec2Model ----
(***************************************************************************)
(* Model of src-tauri/src/lib.rs: the five IPC commands of the RichDad     *)
(* desktop shell (minimize_window, maximize_window, close_window,          *)
(* is_maximized, create_new_window) and the dispatcher installed by run(). *)
(*                                                                         *)
(* The framework is represented by the state it keeps for the handlers:    *)
(* the set of live windows (window id -> label, minimized, maximized) and  *)
(* whether the process is running.  A handler runs on a dispatcher thread. *)
(* A handler that makes one framework call is one step, taken when the     *)
(* front-end of a live window invokes it; a handler that makes two         *)
(* (maximize_window: read, then write; create_new_window: count, then      *)
(* build) takes two steps, and the handlers of other threads can run       *)
(* between them.                                                           *)
(* Each framework call returns a Result: Err is drawn nondeterministically *)
(* (a platform fault), and is what unwrap() and map_err() act on.          *)
(***************************************************************************)
EXTENDS Integers, Sequences, FiniteSets, Bags, TLC

(* ----------------------------- bounds --------------------------------- *)

\* windows create_new_window may build in one run (successful builds)
MaxCreated == 2

(* ------------------------- names and values --------------------------- *)

\* the dispatcher threads: two, so that any handler can run between the two
\* framework calls of another
Threads == {"t1", "t2"}

\* label of the window the generated context opens at startup
MainLabel == "main"

\* id of the window opened at startup; later windows get 1, 2, ...
MainWindow == 0

\* "no window": the window of a handler that takes the AppHandle
NoWindow == -1

\* a changed handler list: is_maximized is left out
HandlersWithoutQuery ==
  {"minimize_window", "maximize_window", "close_window", "create_new_window"}

\* tauri::generate_handler![...]: the names that reach a handler
Handlers ==
  {"minimize_window", "maximize_window", "close_window", "is_maximized",
   "create_new_window"}

\* the names the front-end invokes in this model: the five of the handler
\* list and two it does not hold
CommandNames ==
  {"minimize_window", "maximize_window", "close_window", "is_maximized",
   "create_new_window", "nonexistent", "toggle_maximize"}

\* the first position of each handler body
Entry(name) ==
  CASE name = "minimize_window"   -> "minimize"
    [] name = "maximize_window"   -> "maximize"
    [] name = "close_window"      -> "close"
    [] name = "is_maximized"      -> "is_maximized"
    [] name = "create_new_window" -> "create"

\* the dispatcher: the handler position a name is routed to, "" for none
Dispatch(name) == IF name \in Handlers THEN Entry(name) ELSE ""

(* --------------------------- label format ----------------------------- *)

Digit(d) ==
  CASE d = 0 -> "0" [] d = 1 -> "1" [] d = 2 -> "2" [] d = 3 -> "3"
    [] d = 4 -> "4" [] d = 5 -> "5" [] d = 6 -> "6" [] d = 7 -> "7"
    [] d = 8 -> "8" [] d = 9 -> "9"

\* Display of an unsigned integer: its decimal digits, no padding
RECURSIVE Decimal(_)
Decimal(n) == IF n < 10 THEN Digit(n) ELSE Decimal(n \div 10) \o Digit(n % 10)

\* a changed format: the index is one less than the count
FormatLabelZeroBased(window_count) == "richdad_" \o Decimal(window_count - 1)

\* format!("richdad_{}", window_count)
FormatLabel(window_count) == "richdad_" \o Decimal(window_count)

(* ---------------------------- responses ------------------------------- *)

\* what the front-end receives for an invocation
Pending         == [kind |-> "pending", bool |-> FALSE, msg |-> ""]
Unit            == [kind |-> "ok",      bool |-> FALSE, msg |-> ""]
Bool(b)         == [kind |-> "bool",    bool |-> b,     msg |-> ""]
Rejected(m)     == [kind |-> "err",     bool |-> FALSE, msg |-> m]

\* the framework's answer to a name without a handler
UnknownCommand(name)  == "Command " \o name \o " not found"

\* tauri::Error values build() can return, and their Display
LabelExists(l)  == [code |-> "WebviewLabelAlreadyExists", label |-> l]
CreateFailed    == [code |-> "CreateWebview", label |-> ""]

ErrToString(e) ==
  IF e.code = "WebviewLabelAlreadyExists"
    THEN "a webview with label " \o e.label \o " already exists"
    ELSE "failed to create webview"

(* ------------------------------ state --------------------------------- *)

VARIABLES
  proc,      \* "running", "exited" (last window closed), "aborted" (panic)
  windows,   \* live windows: id -> [label, minimized, maximized], and desc
             \*   for a window create_new_window built
  next_id,   \* id the framework gives the next window it builds
  inflight,  \* bag of the handlers between two framework calls, each
             \*   [pc, window, cond, window_count, label]
  ret,       \* the response delivered last: [cmd, win, res], win the
             \*   originating window of a window command
  created,   \* history: labels of the windows built, in build order
  closed,    \* history: some close_window has closed a window
  toggle,    \* history: maximize_window calls in a row on one window
  race,      \* history: two create_new_window that read one count:
             \*   [label, first], first the outcome of the first to build
  fault_in   \* history: the command whose framework call returned the Err
             \*   that unwrap() met, "" while there is none

vars ==
  <<proc, windows, next_id, inflight, ret, created, closed, toggle, race,
    fault_in>>

Live == DOMAIN windows

Labels(ws) == {ws[w].label : w \in DOMAIN ws}

\* a changed count: the number of windows built so far, not the live ones
WebviewWindowsLenBuilt(ws) == next_id

\* a changed count: the main window is not counted
WebviewWindowsLenSpawned(ws) == Cardinality(Labels(ws) \ {MainLabel})

\* app.webview_windows(): the live webview windows keyed by label; .len()
WebviewWindowsLen(ws) == Cardinality(Labels(ws))

\* a window as the framework opens it
NewWindow(l) == [label |-> l, minimized |-> FALSE, maximized |-> FALSE]

\* a changed builder: the calls that set the descriptor are left out, and the
\* window gets what the framework gives by default
DescriptorDefaults ==
  [url |-> "/", title |-> "Tauri App", inner_size |-> <<800, 600>>,
   min_inner_size |-> <<0, 0>>, resizable |-> TRUE]

\* WebviewWindowBuilder::new(&app, label, WebviewUrl::App("/".into()))
\*   .title(..).inner_size(..).min_inner_size(..).resizable(..)
Descriptor ==
  [url |-> "/", title |-> "RichDad", inner_size |-> <<1600, 1000>>,
   min_inner_size |-> <<1200, 800>>, resizable |-> TRUE]

\* a window as build() opens it for create_new_window: the descriptor of the
\* startup window is that of the generated context, and is not kept here
BuiltWindow(l) ==
  [label |-> l, minimized |-> FALSE, maximized |-> FALSE, desc |-> Descriptor]

\* maximize_window after window.is_maximized() returned flag for window w
MaxHandler(w, flag) ==
  [pc |-> "max_write", window |-> w, cond |-> flag, window_count |-> 0,
   label |-> ""]

\* create_new_window after it read window_count n and formed label l
CreateHandler(n, l) ==
  [pc |-> "create_build", window |-> NoWindow, cond |-> FALSE,
   window_count |-> n, label |-> l]

Handling == BagToSet(inflight)

\* a dispatcher thread is free to take an invocation
ThreadFree == BagCardinality(inflight) < Cardinality(Threads)

Start(h) == inflight' = inflight (+) SetToBag({h})

Finish(h) == inflight' = inflight (-) SetToBag({h})

NoToggle == [w |-> NoWindow, base |-> FALSE, n |-> 0]

NoResponse == [cmd |-> "", win |-> NoWindow, res |-> Pending]

NoRace == [label |-> "", first |-> ""]

Init ==
  /\ proc = "running"
  /\ windows = (MainWindow :> NewWindow(MainLabel))
  /\ next_id = 1
  /\ inflight = EmptyBag
  /\ ret = NoResponse
  /\ created = <<>>
  /\ closed = FALSE
  /\ toggle = NoToggle
  /\ race = NoRace
  /\ fault_in = ""

(* ----------------------- framework window API ------------------------ *)

\* a changed minimize: a minimized window is restored
MinimizeToggle(ws, w) ==
  IF w \in DOMAIN ws THEN [ws EXCEPT ![w].minimized = ~@] ELSE ws

\* window.minimize(): a request for a window that is gone is dropped
Minimize(ws, w) ==
  IF w \in DOMAIN ws THEN [ws EXCEPT ![w].minimized = TRUE] ELSE ws

\* a changed maximize: the flag is flipped, not set
MaximizeFlips(ws, w) ==
  IF w \in DOMAIN ws THEN [ws EXCEPT ![w].maximized = ~@] ELSE ws

\* window.maximize()
Maximize(ws, w) ==
  IF w \in DOMAIN ws THEN [ws EXCEPT ![w].maximized = TRUE] ELSE ws

\* a changed unmaximize: every live window is restored
UnmaximizeEvery(ws, w) ==
  [v \in DOMAIN ws |-> [ws[v] EXCEPT !.maximized = FALSE]]

\* window.unmaximize()
Unmaximize(ws, w) ==
  IF w \in DOMAIN ws THEN [ws EXCEPT ![w].maximized = FALSE] ELSE ws

\* a changed query: the minimized flag is read
IsMaximizedReadsMinimized(ws, w) == ws[w].minimized

\* window.is_maximized(): Ok(flag) for a live window
IsMaximized(ws, w) == ws[w].maximized

\* a changed close: every window leaves the live set
CloseAll(ws, w) == [v \in {} |-> ws[v]]

\* window.close(): the window leaves the live set
Close(ws, w) == [v \in DOMAIN ws \ {w} |-> ws[v]]

\* the framework ends the process when the last window is gone
ProcAfterClose(ws) == IF DOMAIN ws = {} THEN "exited" ELSE "running"

\* a changed build: only the label of the startup window is refused
LabelTakenIfMain(ws, l) == l = MainLabel /\ l \in Labels(ws)

\* a changed build: no label is refused
LabelTakenNever(ws, l) == FALSE

\* WebviewWindowBuilder::build(): a label in use is refused
LabelTaken(ws, l) == l \in Labels(ws)

\* a changed build: the windows that are live are opened anew with the new one
BuildResetsOthers(ws, id, l) ==
  [v \in DOMAIN ws \cup {id} |->
     IF v = id THEN BuiltWindow(l)
     ELSE [ws[v] EXCEPT !.minimized = FALSE, !.maximized = FALSE]]

\* the live set after a successful build of a window labelled l with id id
Build(ws, id, l) ==
  [v \in DOMAIN ws \cup {id} |-> IF v = id THEN BuiltWindow(l) ELSE ws[v]]

(* --------------------------- handler pieces --------------------------- *)

\* a changed branch: the window is maximized whatever the flag
MaxBranchAlwaysMaximize(flag) == "maximize"

\* maximize_window: the branch taken for the flag that was read
MaxBranch(flag) == IF flag THEN "unmaximize" ELSE "maximize"

\* maximize_window: the write of the branch taken
MaxWriteTo(ws, w, flag) ==
  IF MaxBranch(flag) = "unmaximize" THEN Unmaximize(ws, w) ELSE Maximize(ws, w)

\* a changed result: the Err of build() is dropped
CreateResultSwallowed(built, e) == Unit

\* create_new_window: the Result it returns for the Result of build()
CreateResult(built, e) == IF built THEN Unit ELSE Rejected(ErrToString(e))

\* the process after an Err reaches create_new_window: map_err and ?, no panic
ProcAfterBuildErr == "running"

\* a maximize_window handler stands between its read and its write on w
Busy(w) == \E h \in Handling : h.pc = "max_write" /\ h.window = w

\* the response r to cmd, invoked with window w, is delivered
Deliver(cmd, w, r) == ret' = [cmd |-> cmd, win |-> w, res |-> r]

\* no window
NoWindows == [v \in {} |-> NewWindow("")]

\* a changed unwrap: the Err is returned to the front-end as create_new_window
\* returns its own, and the process goes on
PanicSurfaced(cmd) ==
  /\ ret' = [cmd |-> cmd, win |-> NoWindow, res |-> Rejected("error")]
  /\ fault_in' = cmd
  /\ UNCHANGED <<proc, windows, next_id, inflight, created, closed, toggle,
                 race>>

\* unwrap() of an Err: the panic ends the process, and with it every window
\* and every handler in flight; nothing is delivered
Panic(cmd) ==
  /\ proc' = "aborted"
  /\ windows' = NoWindows
  /\ inflight' = EmptyBag
  /\ race' = NoRace
  /\ fault_in' = cmd
  /\ UNCHANGED <<next_id, ret, created, closed, toggle>>

\* the record of consecutive maximize_window calls when name is invoked on w
ToggleOnInvoke(name, w) ==
  IF name = "maximize_window"
    THEN IF Busy(w) THEN NoToggle
         ELSE IF toggle.w = w /\ toggle.n = 1 THEN toggle
         ELSE [w |-> w, base |-> windows[w].maximized, n |-> 0]
    ELSE IF name \in {"minimize_window", "close_window"} /\ w = toggle.w
           THEN NoToggle
           ELSE toggle

\* the record of a race when create_new_window has read its count: with a
\* handler in flight that read the same count, the two are a race
RaceOnCount(h) ==
  IF h \in Handling THEN [label |-> h.label, first |-> "pending"] ELSE race

\* the record of the race when the handler h has built with the outcome given:
\* the first of the two leaves its outcome, the second ends the record
RaceOnBuild(h, outcome) ==
  IF race.label # h.label THEN race
  ELSE IF race.first = "pending" THEN [race EXCEPT !.first = outcome]
  ELSE NoRace

(* ------------------------------ actions ------------------------------- *)

\* a name without a handler is invoked from some live window
InvokeUnknown(name) ==
  /\ proc = "running"
  /\ ThreadFree
  /\ Live # {}
  /\ Dispatch(name) = ""
  /\ Deliver(name, NoWindow, Rejected(UnknownCommand(name)))
  /\ UNCHANGED <<proc, windows, next_id, inflight, created, closed, toggle,
                 race, fault_in>>

\* minimize_window invoked from w: window.minimize().unwrap()
minimize_window(w) ==
  /\ proc = "running"
  /\ ThreadFree
  /\ w \in Live
  /\ Dispatch("minimize_window") = "minimize"
  /\ \E fault \in BOOLEAN :
       IF fault
         THEN Panic("minimize_window")
         ELSE /\ windows' = Minimize(windows, w)
              /\ toggle' = ToggleOnInvoke("minimize_window", w)
              /\ Deliver("minimize_window", w, Unit)
              /\ UNCHANGED <<proc, next_id, inflight, created, closed, race,
                             fault_in>>

\* maximize_window invoked from w: window.is_maximized().unwrap()
maximize_window_read(w) ==
  /\ proc = "running"
  /\ ThreadFree
  /\ w \in Live
  /\ Dispatch("maximize_window") = "maximize"
  /\ \E fault \in BOOLEAN :
       IF fault
         THEN Panic("maximize_window")
         ELSE /\ Start(MaxHandler(w, IsMaximized(windows, w)))
              /\ toggle' = ToggleOnInvoke("maximize_window", w)
              /\ UNCHANGED <<proc, windows, next_id, ret, created, closed,
                             race, fault_in>>

\* maximize_window: window.unmaximize().unwrap() or window.maximize().unwrap()
maximize_window_write(h) ==
  /\ proc = "running"
  /\ h \in Handling
  /\ h.pc = "max_write"
  /\ \E fault \in BOOLEAN :
       IF fault
         THEN Panic("maximize_window")
         ELSE /\ windows' = MaxWriteTo(windows, h.window, h.cond)
              /\ toggle' =
                   IF toggle.w = h.window
                     THEN [toggle EXCEPT !.n = @ + 1]
                     ELSE toggle
              /\ Finish(h)
              /\ Deliver("maximize_window", h.window, Unit)
              /\ UNCHANGED <<proc, next_id, created, closed, race, fault_in>>

\* close_window invoked from w: window.close().unwrap()
close_window(w) ==
  /\ proc = "running"
  /\ ThreadFree
  /\ w \in Live
  /\ Dispatch("close_window") = "close"
  /\ \E fault \in BOOLEAN :
       IF fault
         THEN Panic("close_window")
         ELSE /\ windows' = Close(windows, w)
              /\ proc' = ProcAfterClose(windows')
              /\ inflight' = IF proc' = "exited" THEN EmptyBag ELSE inflight
              /\ race' = IF proc' = "exited" THEN NoRace ELSE race
              /\ closed' = TRUE
              /\ toggle' = ToggleOnInvoke("close_window", w)
              /\ Deliver("close_window", w, Unit)
              /\ UNCHANGED <<next_id, created, fault_in>>

\* is_maximized invoked from w: window.is_maximized().unwrap()
is_maximized(w) ==
  /\ proc = "running"
  /\ ThreadFree
  /\ w \in Live
  /\ Dispatch("is_maximized") = "is_maximized"
  /\ \E fault \in BOOLEAN :
       IF fault
         THEN Panic("is_maximized")
         ELSE /\ Deliver("is_maximized", w, Bool(IsMaximized(windows, w)))
              /\ UNCHANGED <<proc, windows, next_id, inflight, created,
                             closed, toggle, race, fault_in>>

\* create_new_window invoked from some live window: window_count and label
create_new_window_count ==
  /\ proc = "running"
  /\ ThreadFree
  /\ Live # {}
  /\ Dispatch("create_new_window") = "create"
  /\ LET window_count == WebviewWindowsLen(windows)
         label == FormatLabel(window_count)
     IN  /\ Start(CreateHandler(window_count, label))
         /\ race' = RaceOnCount(CreateHandler(window_count, label))
  /\ UNCHANGED <<proc, windows, next_id, ret, created, closed, toggle,
                 fault_in>>

\* create_new_window: WebviewWindowBuilder ... .build().map_err(...)?; Ok(())
create_new_window_build(h) ==
  /\ proc = "running"
  /\ h \in Handling
  /\ h.pc = "create_build"
  /\ \E fault \in BOOLEAN :
       IF LabelTaken(windows, h.label) \/ fault
         THEN /\ Deliver("create_new_window", NoWindow,
                   CreateResult(FALSE,
                     IF LabelTaken(windows, h.label)
                       THEN LabelExists(h.label) ELSE CreateFailed))
              /\ proc' = ProcAfterBuildErr
              /\ Finish(h)
              /\ race' = RaceOnBuild(h, IF LabelTaken(windows, h.label)
                                          THEN "collision" ELSE "failed")
              /\ UNCHANGED <<windows, next_id, created, closed, toggle,
                             fault_in>>
         ELSE /\ next_id <= MaxCreated   \* the bound of the model
              /\ windows' = Build(windows, next_id, h.label)
              /\ next_id' = next_id + 1
              /\ created' = Append(created, h.label)
              /\ Deliver("create_new_window", NoWindow,
                         CreateResult(TRUE, CreateFailed))
              /\ Finish(h)
              /\ race' = RaceOnBuild(h, "built")
              /\ UNCHANGED <<proc, closed, toggle, fault_in>>

Next ==
  \/ \E name \in CommandNames : InvokeUnknown(name)
  \/ \E w \in Live : minimize_window(w)
  \/ \E w \in Live : maximize_window_read(w)
  \/ \E h \in Handling : maximize_window_write(h)
  \/ \E w \in Live : close_window(w)
  \/ \E w \in Live : is_maximized(w)
  \/ create_new_window_count
  \/ \E h \in Handling : create_new_window_build(h)

Spec == Init /\ [][Next]_vars

(* ------------------------------ typing -------------------------------- *)

TypeOK ==
  /\ proc \in {"running", "exited", "aborted"}
  /\ DOMAIN windows \subseteq 0..MaxCreated
  /\ \A w \in Live : windows[w].minimized \in BOOLEAN
                     /\ windows[w].maximized \in BOOLEAN
  /\ next_id \in 1..(MaxCreated + 1)
  /\ Len(created) = next_id - 1
  /\ BagCardinality(inflight) <= Cardinality(Threads)
  /\ toggle.n \in 0..2
  /\ race.first \in {"", "pending", "built", "collision", "failed"}
  /\ fault_in \in {""} \cup Handlers

(* ------------------------- words of the claims ------------------------ *)

\* the label richdad_<n>, written out independently of FormatLabel
Richdad(n) == "richdad_" \o ToString(n)

\* main and richdad_1 .. richdad_k
MainAnd(k) == {MainLabel} \cup {Richdad(i) : i \in 1..k}

\* the step is the build step of the create_new_window handler h
BuildStep(h) ==
  /\ h \in Handling
  /\ h.pc = "create_build"
  /\ inflight' = inflight (-) SetToBag({h})
  /\ DOMAIN windows' # {}

\* the handlers create_new_window has put in flight in this step
Counted ==
  {h \in BagToSet(inflight') :
     h.pc = "create_build" /\ CopiesIn(h, inflight') > CopiesIn(h, inflight)}

\* the response of build() to a label in use, as create_new_window returns it
Duplicate(l) == Rejected("a webview with label " \o l \o " already exists")

(* ------------------------------- claims ------------------------------- *)

\* C1: in every reachable state, whatever create_new_window and close_window
\* commands ran and however they interleaved, no two live windows share a
\* label.
C1_UniqueLabels ==
  \A v \in Live, w \in Live : v # w => windows[v].label # windows[w].label

\* C1 witness: after a close, at least two windows are live and
\* create_new_window has just been refused a label a live window holds.
C1_Witness ==
  /\ closed
  /\ Cardinality(Live) >= 2
  /\ ret.cmd = "create_new_window"
  /\ \E w \in Live : ret.res = Duplicate(windows[w].label)

\* C2 as claimed: the Nth successful create_new_window of a fresh process
\* builds the window labelled richdad_<N-1>.
C2_ZeroIndexed == \A i \in 1..Len(created) : created[i] = Richdad(i - 1)

\* C2 amended: the label of a window create_new_window builds is richdad_<c>
\* for the window count c that invocation read, which counts the main window;
\* so while no window has been closed, the Nth successful create_new_window of
\* a fresh process builds richdad_<N>.
C2_FactoryLabel ==
  /\ [](~closed => \A i \in 1..Len(created) : created[i] = Richdad(i))
  /\ [][\A h \in Handling :
          BuildStep(h) /\ Len(created') > Len(created)
            => /\ h.window_count >= 1
               /\ created'[Len(created')] = Richdad(h.window_count)
               /\ \E w \in DOMAIN windows' \ Live :
                    windows'[w].label = Richdad(h.window_count)]_vars

\* C2 witness: two windows built on a fresh process with no close.
C2_Witness ==
  /\ ~closed
  /\ created = <<Richdad(1), Richdad(2)>>
  /\ ret = [cmd |-> "create_new_window", win |-> NoWindow, res |-> Unit]

\* C3: from the one main window, with no close_window (and no panic), k
\* create_new_window calls one after the other all succeed, unless the
\* platform fails a build, and leave exactly main and richdad_1 .. richdad_k
\* live; one call gives two windows, two give three.
C3_SequentialCreates ==
  /\ [](proc = "running" /\ ~closed
          => /\ Labels(windows) = MainAnd(Len(created))
             /\ Cardinality(Live) = Len(created) + 1)
  /\ [][\A h \in Handling :
          /\ BuildStep(h)
          /\ ~closed
          /\ h.window_count = Cardinality(Live)
          /\ ret'.res.msg # "failed to create webview"
          => /\ ret'.res = Unit
             /\ Len(created') = Len(created) + 1
             /\ Labels(windows') = MainAnd(Len(created) + 1)]_vars

\* C3 witness: two calls from the one-window start: main, richdad_1 and
\* richdad_2 are live.
C3_Witness ==
  /\ ~closed
  /\ Len(created) = 2
  /\ Cardinality(Live) = 3
  /\ Labels(windows) = {"main", "richdad_1", "richdad_2"}

\* C4: when the build step of create_new_window fails (the label is in use,
\* or the platform fails it and no window is built), the caller gets an error
\* with a non-empty message, the live windows are exactly as they were, and
\* the process keeps running.
C4_BuildFailureSurfaced ==
  [][\A h \in Handling :
       BuildStep(h) /\ (h.label \in Labels(windows) \/ windows' = windows)
         => /\ ret'.cmd = "create_new_window"
            /\ ret'.res.kind = "err"
            /\ ret'.res.msg # ""
            /\ h.label \in Labels(windows) => ret'.res = Duplicate(h.label)
            /\ windows' = windows
            /\ proc' = "running"]_vars

\* C4 witness: a duplicate label has been refused; the windows are live and
\* the process runs.
C4_Witness ==
  /\ proc = "running"
  /\ ret.cmd = "create_new_window"
  /\ ret.res.kind = "err"
  /\ \E w \in Live : ret.res = Duplicate(windows[w].label)

\* main, richdad_1 and richdad_2 were live and richdad_2 has been closed
ClosedSecond ==
  /\ proc = "running"
  /\ created = <<Richdad(1), Richdad(2)>>
  /\ Labels(windows) = {MainLabel, Richdad(1)}

\* main, richdad_1 and richdad_2 were live and richdad_1 has been closed
ClosedFirst ==
  /\ proc = "running"
  /\ created = <<Richdad(1), Richdad(2)>>
  /\ Labels(windows) = {MainLabel, Richdad(2)}

\* C5 as claimed: with main, richdad_1 and richdad_2 live, after richdad_2 is
\* closed a create_new_window requests the label richdad_1, and the request is
\* refused as a duplicate.
C5_ChurnAsClaimed ==
  [][/\ ClosedSecond => \A h \in Counted : h.label = Richdad(1)
     /\ \A h \in Handling :
          BuildStep(h) /\ ClosedSecond /\ h.window_count = Cardinality(Live)
            => ret'.res = Duplicate(Richdad(1))]_vars

\* C5 amended: with main, richdad_1 and richdad_2 live, after richdad_2 is
\* closed a create_new_window requests richdad_2, which no live window holds,
\* so it is not refused as a duplicate; it is after richdad_1 is closed, with
\* richdad_2 still alive, that create_new_window requests richdad_2 and is
\* refused as a duplicate (it returns the error and builds nothing).
C5_Churn ==
  [][/\ ClosedSecond
          => \A h \in Counted :
               h.label = Richdad(2) /\ h.label \notin Labels(windows)
     /\ ClosedFirst => \A h \in Counted : h.label = Richdad(2)
     /\ \A h \in Handling :
          BuildStep(h) /\ ClosedFirst /\ h.window_count = Cardinality(Live)
            => /\ ret' = [cmd |-> "create_new_window", win |-> NoWindow,
                          res |-> Duplicate(Richdad(2))]
               /\ windows' = windows]_vars

\* C5 witness: richdad_1 was closed, richdad_2 is alive, and
\* create_new_window has been refused richdad_2.
C5_Witness ==
  /\ ClosedFirst
  /\ ret = [cmd |-> "create_new_window", win |-> NoWindow,
            res |-> Duplicate(Richdad(2))]

\* C6: for a live window w, after one maximize_window call the maximized
\* flag of w is the opposite of what it was, and after two calls in a row,
\* with no other maximize_window, minimize_window or close_window on w
\* meanwhile, it is what it was before the first.
C6_ToggleLaw ==
  toggle.w \in Live =>
    /\ toggle.n = 1 => windows[toggle.w].maximized = ~toggle.base
    /\ toggle.n \in {0, 2} => windows[toggle.w].maximized = toggle.base

\* C6 witness: two maximize_window calls in a row have completed on a window
\* that was maximized before the first.
C6_Witness ==
  /\ toggle.w \in Live
  /\ toggle.n = 2
  /\ toggle.base
  /\ ret = [cmd |-> "maximize_window", win |-> toggle.w, res |-> Unit]

\* the step delivers a new response to cmd
Responds(cmd) == ret' # ret /\ ret'.cmd = cmd

\* C7: is_maximized returns the maximized flag the originating window has at
\* the call and changes no window: false on a process just started and for a
\* window just built, true right after a maximize_window that maximized the
\* window, false right after one that restored it.
C7_IsMaximizedReflects ==
  [][/\ Responds("is_maximized")
          => /\ ret'.win \in Live
             /\ ret'.res = Bool(windows[ret'.win].maximized)
             /\ windows' = windows
             /\ ret = NoResponse /\ inflight = EmptyBag
                  => ret'.res = Bool(FALSE)
             /\ toggle.w = ret'.win /\ toggle.n = 1
                  => ret'.res = Bool(~toggle.base)
     /\ \A w \in DOMAIN windows' \ Live : ~windows'[w].maximized]_vars

\* C7 witness: is_maximized has returned true for a window that one
\* maximize_window call has just maximized.
C7_Witness ==
  /\ toggle.w \in Live
  /\ toggle.n = 1
  /\ ~toggle.base
  /\ ret = [cmd |-> "is_maximized", win |-> toggle.w, res |-> Bool(TRUE)]

\* C8: close_window on a live window w takes w, and only w, out of the live
\* set: every other live window stays live as it was; if w was the only live
\* window the process exits, otherwise it keeps running.
C8_CloseSemantics ==
  [][Responds("close_window")
       => LET w == ret'.win
          IN  /\ w \in Live
              /\ DOMAIN windows' = Live \ {w}
              /\ \A v \in Live \ {w} : windows'[v] = windows[v]
              /\ Live = {w} => proc' = "exited"
              /\ Live # {w} => proc' = "running"]_vars

\* C8 witness: windows were built and closed, and the close of the last live
\* window has ended the process.
C8_Witness ==
  /\ proc = "exited"
  /\ Live = {}
  /\ Len(created) >= 1
  /\ ret.cmd = "close_window"
  /\ ret.res = Unit

\* C9: minimize_window leaves the originating window minimized and changes
\* nothing else of any window; on a window that is minimized already it
\* changes nothing, so two calls leave the state one call leaves.
C9_MinimizeIdempotent ==
  [][Responds("minimize_window")
       => LET w == ret'.win
          IN  /\ w \in Live
              /\ windows' = [windows EXCEPT ![w].minimized = TRUE]
              /\ Minimize(windows', w) = windows'
              /\ windows[w].minimized => windows' = windows]_vars

\* C9 witness: minimize_window has returned and its window is minimized,
\* beside another window that is not.
C9_Witness ==
  /\ ret.cmd = "minimize_window"
  /\ ret.win \in Live
  /\ windows[ret.win].minimized
  /\ \E v \in Live : ~windows[v].minimized

\* the five command names of the spec
FiveCommands ==
  {"minimize_window", "maximize_window", "close_window", "is_maximized",
   "create_new_window"}

\* what the front-end gets for a name that has no handler
NotFound(name) == Rejected("Command " \o name \o " not found")

FirstOfRace(h) == BuildStep(h) /\ race.label = h.label /\ race.first = "pending"

\* the build step of h is the second build of a race
SecondOfRace(h) ==
  BuildStep(h) /\ race.label = h.label
    /\ race.first \in {"built", "collision", "failed"}

MaxWriteStep(h) ==
  /\ h \in Handling
  /\ h.pc = "max_write"
  /\ inflight' = inflight (-) SetToBag({h})
  /\ proc' = "running"

\* the maximize_window handlers that have read the flag in this step
HaveRead ==
  {h \in BagToSet(inflight') :
     h.pc = "max_write" /\ CopiesIn(h, inflight') > CopiesIn(h, inflight)}

\* every live window has a label, and its two flags are booleans
WellFormed(ws) ==
  \A w \in DOMAIN ws :
    /\ {"label", "minimized", "maximized"} \subseteq DOMAIN ws[w]
    /\ ws[w].label # ""
    /\ ws[w].minimized \in BOOLEAN
    /\ ws[w].maximized \in BOOLEAN

\* C12: maximize_window reads the maximized flag in one step and writes in
\* another, and other commands on the window run between the two.  The read
\* changes no window; the write sets the flag of its window to the opposite of
\* the value its own read returned, whatever the flag has become since, and
\* changes nothing else; no other step changes a maximized flag.  So the flag
\* is always the value of the last write to complete, and the window state
\* stays well-formed.
C12_LastWriterWins ==
  /\ [](WellFormed(windows))
  /\ [][/\ \A h \in HaveRead :
             /\ windows' = windows
             /\ h.window \in Live
             /\ h.cond = windows[h.window].maximized
        /\ \A h \in Handling :
             MaxWriteStep(h)
               => IF h.window \in Live
                    THEN windows' =
                           [windows EXCEPT ![h.window].maximized = ~h.cond]
                    ELSE windows' = windows
        /\ \A w \in Live \cap DOMAIN windows' :
             windows'[w].maximized # windows[w].maximized
               => \E h \in Handling : MaxWriteStep(h) /\ h.window = w]_vars

\* C12 witness: a maximize_window on a window has completed its write while
\* another maximize_window on the same window stands between its read and its
\* write, holding a flag that is no longer the flag of the window.
C12_Witness ==
  /\ ret.cmd = "maximize_window"
  /\ ret.win \in Live
  /\ \E h \in Handling :
       /\ h.pc = "max_write"
       /\ h.window = ret.win
       /\ h.cond # windows[ret.win].maximized

\* the four commands that take the originating window
WindowCommands ==
  {"minimize_window", "maximize_window", "close_window", "is_maximized"}

\* C13: an Err from a framework call inside minimize_window, maximize_window,
\* close_window or is_maximized aborts the process, and an aborted process
\* takes no further step: no command is served and no window is live.  An
\* abort comes only from one of those four: a build that fails inside
\* create_new_window returns its error and leaves the process running.
C13_ErrorRegimes ==
  /\ [](fault_in # ""
          => proc = "aborted" /\ Live = {} /\ inflight = EmptyBag)
  /\ [](proc = "aborted" => fault_in \in WindowCommands)
  /\ [][proc # "aborted"]_vars
  /\ [][\A h \in Handling :
          BuildStep(h) /\ windows' = windows
            => /\ ret'.cmd = "create_new_window"
               /\ ret'.res.kind = "err"
               /\ proc' = "running"
               /\ fault_in' = ""]_vars

\* C13 witness: create_new_window has returned an error to the front-end and
\* the process went on, until an Err inside close_window aborted it.
C13_Witness ==
  /\ proc = "aborted"
  /\ fault_in = "close_window"
  /\ ret.cmd = "create_new_window"
  /\ ret.res.kind = "err"

\* the windows create_new_window has built: all but the startup window
Spawned(ws) == DOMAIN ws \ {MainWindow}

\* the descriptor of the spec
FixedDescriptor ==
  [title |-> "RichDad", inner_size |-> <<1600, 1000>>,
   min_inner_size |-> <<1200, 800>>, resizable |-> TRUE, url |-> "/"]

\* C14: every window create_new_window builds has the title RichDad, the
\* inner size 1600x1000, the minimum inner size 1200x800, is resizable, shows
\* the root URL / and starts neither maximized nor minimized; two such
\* windows differ by the label only when built, and never by the descriptor.
C14_FixedDescriptor ==
  /\ [](\A w \in Spawned(windows) : windows[w].desc = FixedDescriptor)
  /\ [](\A v \in Spawned(windows), w \in Spawned(windows) :
          v # w => /\ windows[v].desc = windows[w].desc
                   /\ windows[v].label # windows[w].label)
  /\ [][\A w \in DOMAIN windows' \ Live :
          /\ w \in Spawned(windows')
          /\ windows'[w] =
               [label |-> created'[Len(created')], minimized |-> FALSE,
                maximized |-> FALSE, desc |-> FixedDescriptor]]_vars

\* C14 witness: create_new_window has just built a window beside another it
\* built before, which has been maximized since.
C14_Witness ==
  /\ ret = [cmd |-> "create_new_window", win |-> NoWindow, res |-> Unit]
  /\ \E v \in Spawned(windows), w \in Spawned(windows) :
       /\ v # w
       /\ windows[v].maximized
       /\ windows[w] = BuiltWindow(created[Len(created)])

\* a live window of ws holds the label of the count of ws: a create_new_window
\* that reads its count in ws requests a label in use
Blocked(ws) == Richdad(Cardinality(DOMAIN ws)) \in Labels(ws)

\* the build step of h returns the label-collision error
Collides(h) == BuildStep(h) /\ ret'.res = Duplicate(h.label)

\* C15 as claimed: once a create_new_window has failed with a label
\* collision, a create_new_window that reads its count next requests the same
\* label again, which a live window holds.
C15_RetryAsClaimed ==
  [][\A h \in Handling :
       Collides(h)
         => /\ Richdad(Cardinality(DOMAIN windows')) = h.label
            /\ Blocked(windows')]_vars

\* C15 amended: once a create_new_window has failed with a label collision on
\* the label of the count that is still the live-window count, every
\* create_new_window that reads its count requests that same label and fails
\* with the collision, for as long as no window is closed or built; when the
\* collision was on the label of a count that had changed before the build (a
\* race with another create), the retry reads the new count and is not bound
\* to fail.
C15_RetryBlocked ==
  [][/\ \A h \in Handling :
          Collides(h) /\ h.window_count = Cardinality(Live)
            => Blocked(windows') /\ Richdad(Cardinality(Live)) = h.label
     /\ Blocked(windows) /\ DOMAIN windows' = Live => Blocked(windows')
     /\ Blocked(windows)
          => \A h \in Counted :
               /\ h.window_count = Cardinality(Live)
               /\ h.label = Richdad(Cardinality(Live))
     /\ \A h \in Handling :
          /\ BuildStep(h)
          /\ Blocked(windows)
          /\ h.window_count = Cardinality(Live)
          => Collides(h) /\ windows' = windows]_vars

\* C15 witness: create_new_window has failed with the collision on the label
\* of the live-window count, and a retry that read the same count is in
\* flight.
C15_Witness ==
  /\ Blocked(windows)
  /\ ret = [cmd |-> "create_new_window", win |-> NoWindow,
            res |-> Duplicate(Richdad(Cardinality(Live)))]
  /\ \E h \in Handling :
       /\ h.pc = "create_build"
       /\ h.window_count = Cardinality(Live)
       /\ h.label = Richdad(Cardinality(Live))

\* every window of ws but w is in ws2 as it is in ws
OthersKept(ws, ws2, w) ==
  \A v \in DOMAIN ws \ {w} : v \in DOMAIN ws2 /\ ws2[v] = ws[v]

\* C16: each of the four window commands acts on the originating window
\* only.  minimize_window, maximize_window (its read and its write) and
\* is_maximized leave the live set, every label and every other window as
\* they are: minimize_window changes at most the minimized flag of its window,
\* the write of maximize_window at most the maximized flag of its window, and
\* the read of maximize_window and is_maximized change no window at all.
\* close_window removes its window and no other.  And a flag of a window
\* changes only in a step of minimize_window or maximize_window on it.
C16_OriginatingWindowOnly ==
  [][/\ Responds("minimize_window")
          => /\ DOMAIN windows' = Live
             /\ OthersKept(windows, windows', ret'.win)
             /\ windows' = [windows EXCEPT ![ret'.win].minimized =
                                            windows'[ret'.win].minimized]
     /\ \A h \in Handling :
          MaxWriteStep(h)
            => /\ DOMAIN windows' = Live
               /\ OthersKept(windows, windows', h.window)
               /\ h.window \in Live
                    => windows' = [windows EXCEPT ![h.window].maximized =
                                              windows'[h.window].maximized]
     /\ HaveRead # {} => windows' = windows
     /\ Responds("is_maximized") => windows' = windows
     /\ Responds("close_window")
          => /\ DOMAIN windows' = Live \ {ret'.win}
             /\ OthersKept(windows, windows', ret'.win)
     /\ \A w \in Live \cap DOMAIN windows' :
          windows'[w] # windows[w]
            => /\ ret'.win = w
               /\ ret'.cmd \in {"minimize_window", "maximize_window"}
               /\ windows'[w].label = windows[w].label]_vars

\* C16 witness: with three windows live, each with flags of its own, a
\* maximize_window has restored one of them and the other two are as they
\* were: one maximized, one minimized.
C16_Witness ==
  /\ Cardinality(Live) = 3
  /\ ret.cmd = "maximize_window"
  /\ ret.win \in Live
  /\ ~windows[ret.win].maximized
  /\ \E v \in Live \ {ret.win} : windows[v].maximized
  /\ \E v \in Live \ {ret.win} : windows[v].minimized

\* the build step of h has built a window
Builds(h) == BuildStep(h) /\ Len(created') = Len(created) + 1

\* C17: a successful create_new_window adds exactly one window to the live
\* set and leaves every window that was live as it was, label and flags.  The
\* label an invocation requests is richdad_<c> for the live-window count c it
\* read at its start; so while no window has been closed, the index an
\* invocation takes at its start, and the index of a window it builds, is
\* never smaller than the number of windows create_new_window has built.
C17_CreateFrame ==
  /\ [][/\ \A h \in Handling :
             Builds(h)
               => /\ Live \subseteq DOMAIN windows'
                  /\ Cardinality(DOMAIN windows') = Cardinality(Live) + 1
                  /\ \A w \in Live : windows'[w] = windows[w]
                  /\ \A w \in DOMAIN windows' \ Live :
                       windows'[w].label = Richdad(h.window_count)
                  /\ ~closed => h.window_count >= Len(created')
        /\ \A h \in Counted :
             /\ h.window_count = Cardinality(Live)
             /\ h.label = Richdad(Cardinality(Live))
             /\ ~closed => h.window_count >= Len(created)]_vars
  /\ [](\A h \in Handling :
          h.pc = "create_build" => h.label = Richdad(h.window_count))

\* C17 witness: with no window closed, create_new_window has built a second
\* window, and the first it built is maximized and minimized as it was.
C17_Witness ==
  /\ ~closed
  /\ Len(created) = 2
  /\ ret = [cmd |-> "create_new_window", win |-> NoWindow, res |-> Unit]
  /\ \E v \in Live, w \in Live :
       /\ windows[v].label = created[1]
       /\ windows[v].maximized /\ windows[v].minimized
       /\ windows[w].label = created[2]
       /\ ~windows[w].maximized /\ ~windows[w].minimized

====
